---- MODULE Spec2Model ----
\* A model of bin/kube.py: the exporter (export_vars), the cloud-provider
\* detector, the heuristic CIDR selection and the range prober
\* (check_service_iprange / test_service), run against a model of the
\* Kubernetes API server's Service registry.
EXTENDS Integers, Sequences, FiniteSets, TLC

\* ---------------------------------------------------------------- bounds
\* Candidate and cluster ranges are drawn from the aligned blocks of prefix
\* length 30-PlenSpan .. 30 inside one block of prefix length 30-PlenSpan.
PlenSpan == 2
\* The longest /etc/resolv.conf that is enumerated, in lines.
MaxLines == 2

\* ------------------------------------------------------- module constants
ALLOCATED_ERR == "provided IP is already allocated"
DNS_ENV == "KUBE_DNS"
DNS_SEARCH_ARR_ENV == "DNS_SEARCH_ARR"
DNS_SEARCH_ENV == "KUBE_DNS_SEARCH"
SVC_NETWORK_ENV == "KUBE_SVC_NET"
SVC_MASK_ENV == "KUBE_SVC_MASK"
EnvNames == {DNS_ENV, DNS_SEARCH_ARR_ENV, DNS_SEARCH_ENV, SVC_NETWORK_ENV, SVC_MASK_ENV}

\* min_service's default name: the one probe Service every run uses.
ProbeName == "openvpntest-ok-to-delete"
\* Services of the cluster that are not the probe.
OtherNames == {"kubernetes", "kube-dns"}
SvcNames == {ProbeName} \cup OtherNames

\* Python's None (os.environ.get / dict.get of a missing key, a missing field).
NoneVal == "<None>"
\* test_service's and check_service_iprange's negative result, False.
PyFalse == -1
\* test_service's default target_ip, "": the cluster picks the address.
EmptyIP == -2
\* No Service of that name.
Absent == -3

\* ------------------------------------------------------------ addresses
\* An IPv4 address is its 32 bit value; every address used is below 2^31.
Pow2(n) == 2 ^ n
IP(a, b, c, d) == ((a * 256 + b) * 256 + c) * 256 + d
\* str(IPAddress): the dotted quad, as its four octets.
Quad(n) == << n \div Pow2(24), (n \div Pow2(16)) % 256, (n \div Pow2(8)) % 256, n % 256 >>

\* IPNetwork(cidr): the address as written and the prefix length.
Cidr(a, p) == [addr |-> a, plen |-> p]
Size(c) == Pow2(32 - c.plen)
\* IPNetwork.first / .last: the address with the host bits cleared / set.
First(c) == c.addr - (c.addr % Size(c))
Last(c) == First(c) + Size(c) - 1
Aligned(c) == c.addr % Size(c) = 0
Min(a, b) == IF a < b THEN a ELSE b
Max(a, b) == IF a > b THEN a ELSE b
\* One octet of the netmask of prefix length p (i = 1..4).
MaskOctet(p, i) == 256 - Pow2(8 - Min(8, Max(0, p - 8 * (i - 1))))
\* network_and_mask(cidr): str(net.network), str(net.netmask).
network_and_mask(c) == << Quad(First(c)), [i \in 1..4 |-> MaskOctet(c.plen, i)] >>

\* bool(IPAddress) is False for 0.0.0.0, bool(False) is False.
Truthy(v) == v # PyFalse /\ v # 0

\* False where a network is expected (check_service_iprange, find_services_cidr).
FalseNet == Cidr(PyFalse, 0)
IsNet(c) == c.addr # PyFalse

\* ------------------------------------------------------------ the state
\* The two processes that may run the script (one per Pod).
Runs == {"a", "b"}

VARIABLES
  svcRange,    \* the cluster's service range (the API server's configuration)
  services,    \* Service name -> its cluster IP, or Absent
  pods,        \* run -> the Pod object of the Pod the run executes in
  nodes,       \* node name -> the Node object
  flaky,       \* whether API calls may fail for reasons of their own (5xx)
  environ,     \* run -> os.environ of the process
  resolvFile,  \* run -> /etc/resolv.conf of the Pod: its lines, or EIO
  kubeEnv,     \* run -> what the GCE metadata service answers for kube-env
  run          \* run -> the process: its position and its local variables

vars == << svcRange, services, pods, nodes, flaky, environ, resolvFile, kubeEnv, run >>
cluster == << svcRange, services, pods, nodes, flaky >>
inputs == << environ, resolvFile, kubeEnv >>

\* ------------------------------------------------- the API server's side
\* The addresses the registry hands out: strictly between first and last.
Interior(ip, S) == First(S) < ip /\ ip < Last(S)
AllocatedIPs(svcs) == {svcs[n] : n \in SvcNames} \ {Absent}
\* The free addresses an automatic allocation is drawn from (a few low ones
\* and the highest stand for the whole range).
AutoPool(svcs, S) ==
  {ip \in {First(S) + 1, First(S) + 2, First(S) + 3, Last(S) - 1} : Interior(ip, S)}
    \ AllocatedIPs(svcs)

NOT_IN_RANGE_ERR == "provided IP is not in the valid range"
RANGE_FULL_ERR == "range is full"
EXISTS_ERR == "already exists"
NOT_FOUND_ERR == "not found"
SERVER_ERR == "Internal Server Error"

Ok(ip) == [ok |-> TRUE, ip |-> ip, err |-> ""]
HTTPError(msg) == [ok |-> FALSE, ip |-> PyFalse, err |-> msg]
Transient(fl) == IF fl THEN {HTTPError(SERVER_ERR)} ELSE {}

\* POST of a Service named `name` asking for cluster IP `target`: the
\* registry allocates the address first and stores the object second.
CreateOutcomes(svcs, S, fl, name, target) ==
  Transient(fl) \cup
  ( IF target = EmptyIP
    THEN IF AutoPool(svcs, S) = {} THEN {HTTPError(RANGE_FULL_ERR)}
         ELSE IF svcs[name] # Absent THEN {HTTPError(EXISTS_ERR)}
         ELSE {Ok(ip) : ip \in AutoPool(svcs, S)}
    ELSE IF ~Interior(target, S) THEN {HTTPError(NOT_IN_RANGE_ERR)}
    ELSE IF target \in AllocatedIPs(svcs) THEN {HTTPError(ALLOCATED_ERR)}
    ELSE IF svcs[name] # Absent THEN {HTTPError(EXISTS_ERR)}
    ELSE {Ok(target)} )

\* DELETE of the Service named `name`.
DeleteOutcomes(svcs, fl, name) ==
  Transient(fl) \cup
  ( IF svcs[name] = Absent THEN {HTTPError(NOT_FOUND_ERR)} ELSE {Ok(svcs[name])} )

\* GET of the Service named `name` (pykube's exists(): 200 or 404, else raise).
ExistsOutcomes(svcs, fl, name) ==
  Transient(fl) \cup {Ok(IF svcs[name] = Absent THEN 0 ELSE 1)}

\* GET of a Pod or a Node (reload()).
ReloadOutcomes(fl) == Transient(fl) \cup {Ok(0)}

\* ------------------------------------------------------------ exporter
ResolvKeys == {"nameserver", "search"}
EmptyDict == [k \in ResolvKeys |-> NoneVal]
\* One line of resolv.conf after line.split(maxsplit=1): its words.
RECURSIVE ParseLines(_, _)
ParseLines(lines, contents) ==
  IF lines = <<>> THEN contents
  ELSE LET parsed_line == Head(lines)
       IN ParseLines(Tail(lines),
            IF Len(parsed_line) > 1 /\ parsed_line[1] \in ResolvKeys
            THEN [contents EXCEPT ![parsed_line[1]] = parsed_line[2]]
            ELSE contents)
\* get_resolv(): the directives of the file; an IOError leaves it empty.
get_resolv(file) == IF file.readable THEN ParseLines(file.lines, EmptyDict) ELSE EmptyDict

\* "is None or len(..) == 0"
IsEmpty(v) == v = NoneVal \/ v = ""
\* "%s" % v
Str(v) == IF v = NoneVal THEN "None" ELSE v
\* One line of the output: export VAR="val", or export VAR=(\tval\t).
Assign(var, val) == [var |-> var, val |-> val, array |-> FALSE]
AssignArr(var, val) == [var |-> var, val |-> val, array |-> TRUE]

\* DnsLines without the test of the environment.
DnsLinesIgnoreEnv(env, resolv) ==
  IF resolv["nameserver"] # NoneVal
  THEN << Assign(DNS_ENV, Str(resolv["nameserver"])) >>
  ELSE << >>

\* export_vars, the DNS server lines.
DnsLines(env, resolv) ==
  LET dns == env[DNS_ENV]
  IN IF IsEmpty(dns)
     THEN IF resolv["nameserver"] # NoneVal
          THEN << Assign(DNS_ENV, Str(resolv["nameserver"])) >>
          ELSE << >>
     ELSE << >>

\* export_vars, the DNS search path lines.
SearchLines(env, resolv) ==
  LET search_arr == env[DNS_SEARCH_ARR_ENV]
      search == IF IsEmpty(env[DNS_SEARCH_ENV]) THEN resolv["search"] ELSE env[DNS_SEARCH_ENV]
  IN IF IsEmpty(search_arr)
     THEN << AssignArr(DNS_SEARCH_ARR_ENV, Str(search)) >>
     ELSE << >>

\* export_vars, the service network and mask lines.
CidrLines(env, cidr) ==
  IF IsNet(cidr)
  THEN LET nm == network_and_mask(cidr)
       IN (IF IsEmpty(env[SVC_NETWORK_ENV]) THEN << Assign(SVC_NETWORK_ENV, nm[1]) >> ELSE << >>)
          \o (IF IsEmpty(env[SVC_MASK_ENV]) THEN << Assign(SVC_MASK_ENV, nm[2]) >> ELSE << >>)
  ELSE << >>

\* ------------------------------------------------------------- a process
InitRun ==
  [ pc |-> "ev_resolv",        \* the position in the script
    resolv |-> EmptyDict,      \* export_vars: resolv
    out |-> << >>,             \* export_vars: out
    nodeName |-> NoneVal,      \* detect_cloud_provider: node_name
    provider |-> NoneVal,      \* find_services_cidr: provider
    tried |-> 0,               \* find_services_cidr: the candidates checked so far
    net |-> FalseNet,          \* check_service_iprange: net
    site |-> "none",           \* which call of test_service is in progress
    probes |-> << >>,          \* the results of the probes of this check
    csiRes |-> FalseNet,       \* what check_service_iprange returned
    hist |-> << >>,            \* the checks made: candidate and result
    target |-> EmptyIP,        \* test_service: target_ip
    ignore |-> FALSE,          \* test_service: ignore_allocated
    svcIp |-> PyFalse,         \* test_service: svc_ip, once created
    ret |-> PyFalse,           \* what test_service returned
    err |-> "",                \* the message of the HTTPError caught last
    failed |-> {},             \* the API calls of this run that raised
    exc |-> "",                \* the uncaught exception the run died of
    cidr |-> FalseNet ]        \* export_vars: cidr

OffRun == [InitRun EXCEPT !.pc = "off"]

Set(r, st) == run' = [run EXCEPT ![r] = st]

\* export_vars line 248.
GetResolv(r) ==
  /\ run[r].pc = "ev_resolv"
  /\ Set(r, [run[r] EXCEPT !.pc = "ev_dns", !.resolv = get_resolv(resolvFile[r])])
  /\ UNCHANGED << cluster, inputs >>

\* export_vars lines 250-254.
ExportDns(r) ==
  /\ run[r].pc = "ev_dns"
  /\ Set(r, [run[r] EXCEPT !.pc = "ev_search",
                           !.out = @ \o DnsLines(environ[r], run[r].resolv)])
  /\ UNCHANGED << cluster, inputs >>

\* export_vars lines 256-261, then the call of find_services_cidr.
ExportSearch(r) ==
  /\ run[r].pc = "ev_search"
  /\ Set(r, [run[r] EXCEPT !.pc = "dcp_pod",
                           !.out = @ \o SearchLines(environ[r], run[r].resolv)])
  /\ UNCHANGED << cluster, inputs >>

\* ------------------------------------------------------- the range prober
\* HandleHTTPError without the already-allocated case.
HandleHTTPErrorStrict(err, target, ignore) == PyFalse

\* The except clause of test_service: what it returns for an HTTPError.
HandleHTTPError(err, target, ignore) ==
  IF err = ALLOCATED_ERR /\ ignore THEN target ELSE PyFalse

\* test_service returns v (err: the message of the HTTPError it caught, if any).
TsReturn(st, v, err) == [st EXCEPT !.pc = "ts_ret", !.ret = v, !.err = err]
\* test_service's HTTPError handler, entered from the API call `call`.
TsExcept(st, call, err) ==
  TsReturn([st EXCEPT !.failed = @ \cup {call}],
           HandleHTTPError(err, st.target, st.ignore), err)

\* A call test_service(kube_api, target, ignore) made at `site`.
CallTs(st, site, target, ignore) ==
  [st EXCEPT !.pc = "ts_exists", !.site = site, !.target = target,
             !.ignore = ignore, !.svcIp = PyFalse, !.err = ""]

\* svc_id with the name of another Service.
svc_id_other == "kube-dns"

\* test_service lines 74 and 78: both objects carry min_service's name.
svc_id == ProbeName

\* test_service line 75: svc_id.exists().
TsExists(r) ==
  /\ run[r].pc = "ts_exists"
  /\ \E o \in ExistsOutcomes(services, flaky, svc_id) :
       Set(r, IF ~o.ok THEN TsExcept(run[r], "exists", o.err)
              ELSE IF o.ip = 1 THEN [run[r] EXCEPT !.pc = "ts_predelete"]
              ELSE [run[r] EXCEPT !.pc = "ts_create"])
  /\ UNCHANGED << cluster, inputs >>

\* test_service line 76: svc_id.delete() of the leftover.
TsPreDelete(r) ==
  /\ run[r].pc = "ts_predelete"
  /\ \E o \in DeleteOutcomes(services, flaky, svc_id) :
       /\ Set(r, IF ~o.ok THEN TsExcept(run[r], "delete", o.err)
                 ELSE [run[r] EXCEPT !.pc = "ts_create"])
       /\ services' = IF o.ok THEN [services EXCEPT ![svc_id] = Absent] ELSE services
  /\ UNCHANGED << svcRange, pods, nodes, flaky, inputs >>

\* test_service lines 78-80: svc.create() and the read of the cluster IP.
TsCreate(r) ==
  /\ run[r].pc = "ts_create"
  /\ \E o \in CreateOutcomes(services, svcRange, flaky, svc_id, run[r].target) :
       /\ Set(r, IF ~o.ok THEN TsExcept(run[r], "create", o.err)
                 ELSE [run[r] EXCEPT !.pc = "ts_postdelete", !.svcIp = o.ip])
       /\ services' = IF o.ok THEN [services EXCEPT ![svc_id] = o.ip] ELSE services
  /\ UNCHANGED << svcRange, pods, nodes, flaky, inputs >>

\* TsPostDelete without the delete.
TsPostDeleteSkipped(r) ==
  /\ run[r].pc = "ts_postdelete"
  /\ Set(r, TsReturn(run[r], run[r].svcIp, ""))
  /\ UNCHANGED << cluster, inputs >>

\* test_service lines 81-82: svc_id.delete() and return svc_ip.
TsPostDelete(r) ==
  /\ run[r].pc = "ts_postdelete"
  /\ \E o \in DeleteOutcomes(services, flaky, svc_id) :
       /\ Set(r, IF ~o.ok THEN TsExcept(run[r], "delete", o.err)
                 ELSE TsReturn(run[r], run[r].svcIp, ""))
       /\ services' = IF o.ok THEN [services EXCEPT ![svc_id] = Absent] ELSE services
  /\ UNCHANGED << svcRange, pods, nodes, flaky, inputs >>

\* check_service_iprange: the four probes in the order made.
Sites == << "first-1", "first+1", "last-1", "last+1" >>
SiteIndex(site) == CHOOSE i \in 1..Len(Sites) : Sites[i] = site
\* ProbeTarget with the inner probes on the first and last address.
ProbeTargetInclusive(site, net) ==
  CASE site = "first-1" -> First(net) - 1
    [] site = "first+1" -> First(net)
    [] site = "last-1"  -> Last(net)
    [] site = "last+1"  -> Last(net) + 1
\* The address probed at a site of the candidate net.
ProbeTarget(site, net) ==
  CASE site = "first-1" -> First(net) - 1
    [] site = "first+1" -> First(net) + 1
    [] site = "last-1"  -> Last(net) - 1
    [] site = "last+1"  -> Last(net) + 1
\* Deviates without the test of last+1.
DeviatesNoUpper(site, res) ==
  CASE site = "first-1" -> Truthy(res)
    [] site = "first+1" -> ~Truthy(res)
    [] site = "last-1"  -> ~Truthy(res)
    [] site = "last+1"  -> FALSE
\* The four ifs of check_service_iprange: whether the probe's result makes
\* it return False.
Deviates(site, res) ==
  CASE site = "first-1" -> Truthy(res)
    [] site = "first+1" -> ~Truthy(res)
    [] site = "last-1"  -> ~Truthy(res)
    [] site = "last+1"  -> Truthy(res)

\* check_service_iprange(kube_api, cidr) is called: lines 151-153.
StartCsi(st, cidr) ==
  CallTs([st EXCEPT !.net = cidr, !.probes = << >>, !.tried = @ + 1],
         Sites[1], ProbeTarget(Sites[1], cidr), TRUE)
\* check_service_iprange returns res.
CsiReturn(st, res) ==
  [st EXCEPT !.pc = "csi_ret", !.csiRes = res,
             !.hist = Append(@, [cidr |-> st.net, res |-> res])]
\* find_services_cidr returns c.
FscReturn(st, c) == [st EXCEPT !.pc = "ev_cidr", !.cidr = c]
\* An exception nothing catches ends the process.
Crash(st, exc) == [st EXCEPT !.pc = "crashed", !.exc = exc]

\* What the caller does with the result of test_service: lines 153-165 of
\* check_service_iprange, lines 179-182 of find_services_cidr.
AfterProbe(r) ==
  /\ run[r].pc = "ts_ret"
  /\ LET st == run[r]
         st2 == [st EXCEPT !.probes = Append(@, st.ret)]
     IN Set(r, IF st.site = "sample"
               THEN IF Truthy(st.ret) THEN [st EXCEPT !.pc = "gce_meta"]
                    ELSE FscReturn(st, FalseNet)
               ELSE IF Deviates(st.site, st.ret) THEN CsiReturn(st2, FalseNet)
               ELSE IF SiteIndex(st.site) = Len(Sites) THEN CsiReturn(st2, st.net)
               ELSE CallTs(st2, Sites[SiteIndex(st.site) + 1],
                           ProbeTarget(Sites[SiteIndex(st.site) + 1], st.net), TRUE))
  /\ UNCHANGED << cluster, inputs >>

\* ------------------------------------------- provider detection, heuristics
MINIKUBE_NODE == "minikubevm"
\* AwsRanges in the other order.
AwsRangesSwapped == << Cidr(IP(10, 0, 0, 0), 16), Cidr(IP(10, 3, 0, 0), 24) >>
\* find_services_cidr: the candidates of provider aws in the order tried
\* (kube-aws, then kube-up.sh), and the one of minikube.
AwsRanges == << Cidr(IP(10, 3, 0, 0), 24), Cidr(IP(10, 0, 0, 0), 16) >>
MinikubeRange == Cidr(IP(10, 0, 0, 1), 24)
\* provider_id.split("://", 1)[0]; a providerID is held as its parts.
SplitScheme(provider_id) == provider_id[1]

\* detect_cloud_provider lines 134-136: get_pod and the Pod's nodeName.
GetPod(r) ==
  /\ run[r].pc = "dcp_pod"
  /\ \E o \in ReloadOutcomes(flaky) :
       LET st == run[r]
           node_name == pods[r].nodeName
       IN Set(r, IF ~o.ok
                 THEN FscReturn([st EXCEPT !.err = o.err, !.failed = @ \cup {"get_pod"}], FalseNet)
                 ELSE IF node_name = NoneVal
                 THEN [st EXCEPT !.pc = "fsc_branch", !.provider = NoneVal]
                 ELSE IF node_name = MINIKUBE_NODE
                 THEN [st EXCEPT !.pc = "fsc_branch", !.nodeName = node_name,
                                 !.provider = "minikube"]
                 ELSE [st EXCEPT !.pc = "dcp_node", !.nodeName = node_name])
  /\ UNCHANGED << cluster, inputs >>

\* detect_cloud_provider lines 137-140: get_node and the Node's providerID.
GetNode(r) ==
  /\ run[r].pc = "dcp_node"
  /\ \E o \in ReloadOutcomes(flaky) :
       LET st == run[r]
           provider_id == nodes[st.nodeName].providerID
       IN Set(r, IF ~o.ok
                 THEN FscReturn([st EXCEPT !.err = o.err, !.failed = @ \cup {"get_node"}], FalseNet)
                 ELSE IF provider_id = << >>
                 THEN [st EXCEPT !.pc = "fsc_branch", !.provider = NoneVal]
                 ELSE [st EXCEPT !.pc = "fsc_branch", !.provider = SplitScheme(provider_id)])
  /\ UNCHANGED << cluster, inputs >>

\* find_services_cidr lines 176-194: the branch on the provider.
Branch(r) ==
  /\ run[r].pc = "fsc_branch"
  /\ LET st == run[r]
     IN Set(r, CASE st.provider = "gce" -> CallTs(st, "sample", EmptyIP, FALSE)
                 [] st.provider = "aws" -> StartCsi(st, AwsRanges[1])
                 [] st.provider = "minikube" -> StartCsi(st, MinikubeRange)
                 [] OTHER -> FscReturn(st, FalseNet))
  /\ UNCHANGED << cluster, inputs >>

\* find_services_cidr lines 181-182: gce_kubeenv()["SERVICE_CLUSTER_IP_RANGE"].
GceMeta(r) ==
  /\ run[r].pc = "gce_meta"
  /\ LET st == run[r]
         kube_env == kubeEnv[r]
     IN Set(r, IF ~kube_env.fetch THEN Crash(st, "URLError")
               ELSE IF ~kube_env.hasRange THEN Crash(st, "KeyError")
               ELSE StartCsi(st, kube_env.range))
  /\ UNCHANGED << cluster, inputs >>

\* find_services_cidr lines 182-193: what it does with the result of
\* check_service_iprange.
AfterCheck(r) ==
  /\ run[r].pc = "csi_ret"
  /\ LET st == run[r]
     IN Set(r, IF st.provider = "aws" /\ ~IsNet(st.csiRes) /\ st.tried < Len(AwsRanges)
               THEN StartCsi(st, AwsRanges[st.tried + 1])
               ELSE FscReturn(st, st.csiRes))
  /\ UNCHANGED << cluster, inputs >>

\* export_vars lines 264-272.
ExportCidr(r) ==
  /\ run[r].pc = "ev_cidr"
  /\ Set(r, [run[r] EXCEPT !.pc = "done",
                           !.out = @ \o CidrLines(environ[r], run[r].cidr)])
  /\ UNCHANGED << cluster, inputs >>

Step(r) ==
  \/ GetResolv(r)
  \/ ExportDns(r)
  \/ ExportSearch(r)
  \/ GetPod(r)
  \/ GetNode(r)
  \/ Branch(r)
  \/ TsExists(r)
  \/ TsPreDelete(r)
  \/ TsCreate(r)
  \/ TsPostDelete(r)
  \/ AfterProbe(r)
  \/ GceMeta(r)
  \/ AfterCheck(r)
  \/ ExportCidr(r)

Next == \E r \in Runs : Step(r)

\* ------------------------------------------------------ the initial states
\* The aligned blocks of the window 10.0.0.0/(30-PlenSpan), down to /30.
Base == IP(10, 0, 0, 0)
WindowPlen == 30 - PlenSpan
Blocks ==
  {c \in {Cidr(Base + 4 * k, p) : k \in 0..(Pow2(PlenSpan) - 1), p \in WindowPlen..30} :
     Aligned(c)}
\* The ranges the heuristics know.
KnownRanges == {AwsRanges[1], AwsRanges[2], Cidr(IP(10, 0, 0, 0), 24)}

NodeOf(r) == IF r = "a" THEN "node-1" ELSE "node-2"
NodeNames == {"node-1", "node-2", MINIKUBE_NODE}
ProviderIDs_gce == << "gce", "proj/us-central1-a/vm" >>
ProviderIDs ==
  { << >>, << "gce", "proj/us-central1-a/vm" >>, << "aws", "/us-east-1a/i-0abc" >>,
    << "azure", "/subscriptions/s/vm" >>, << "bare-metal" >> }
\* The metadata service: unreachable, kube-env without the key, or with it.
NoMeta == [fetch |-> FALSE, hasRange |-> FALSE, range |-> FalseNet]
Metas(ranges) ==
  {NoMeta, [fetch |-> TRUE, hasRange |-> FALSE, range |-> FalseNet]}
    \cup {[fetch |-> TRUE, hasRange |-> TRUE, range |-> c] : c \in ranges}
\* Where a Pod runs: its nodeName, its Node's providerID, and the metadata
\* service, which answers on GCE only.
Platforms(ranges) ==
  {[nodeName |-> NoneVal, pid |-> << >>, meta |-> NoMeta],
   [nodeName |-> MINIKUBE_NODE, pid |-> << >>, meta |-> NoMeta]}
  \cup {[nodeName |-> "node", pid |-> p, meta |-> NoMeta] : p \in ProviderIDs \ {ProviderIDs_gce}}
  \cup {[nodeName |-> "node", pid |-> ProviderIDs_gce, meta |-> m] : m \in Metas(ranges)}

EnvValues == {NoneVal, "", "preset"}
NoEnv == [n \in EnvNames |-> NoneVal]
ResolvLines ==
  { << "nameserver", "10.0.0.10" >>, << "search", "default.svc.cluster.local" >>,
    << "search" >> }
RECURSIVE SeqsUpTo(_, _)
SeqsUpTo(S, n) ==
  IF n = 0 THEN {<< >>}
  ELSE LET shorter == SeqsUpTo(S, n - 1)
       IN shorter \cup {Append(q, x) : q \in shorter, x \in S}
Unreadable == [readable |-> FALSE, lines |-> << >>]
ResolvFiles == {Unreadable} \cup {[readable |-> TRUE, lines |-> l] : l \in SeqsUpTo(ResolvLines, MaxLines)}
DefaultFile == [readable |-> TRUE, lines |-> << << "nameserver", "10.0.0.10" >> >>]

\* The Services of a cluster of range S before the script runs: the API
\* server's own, the DNS Service, and what an earlier run left behind.
ServiceSets(S) ==
  {f \in [SvcNames -> {Absent, First(S) + 1, First(S) + 2, Last(S) - 1}] :
     /\ f["kubernetes"] \in {Absent, First(S) + 1}
     /\ f["kube-dns"] \in {Absent, Last(S) - 1}
     /\ f[ProbeName] \in {Absent, First(S) + 2}
     /\ \A m, n \in SvcNames : (m # n /\ f[m] # Absent) => f[m] # f[n]}

\* The Pods and Nodes of the runs on the platforms pl (run -> platform).
PodsOf(pl) == [r \in Runs |-> [nodeName |-> IF pl[r].nodeName = "node" THEN NodeOf(r)
                                            ELSE pl[r].nodeName]]
NodesOf(pl) ==
  [n \in NodeNames |->
     [providerID |-> IF \E r \in Runs : NodeOf(r) = n
                     THEN pl[CHOOSE r \in Runs : NodeOf(r) = n].pid ELSE << >>]]

\* One run of the script with every environment and resolv.conf, against
\* a cluster of range 10.0.0.0/24 that answers every call.
Init ==
  /\ svcRange = Cidr(IP(10, 0, 0, 0), 24)
  /\ \E leftover \in {Absent, First(svcRange) + 2} :
       services = [n \in SvcNames |-> IF n = "kubernetes" THEN First(svcRange) + 1
                                      ELSE IF n = ProbeName THEN leftover ELSE Absent]
  /\ flaky = FALSE
  /\ \E pa \in Platforms({svcRange}) :
       LET pl == [r \in Runs |-> IF r = "a" THEN pa ELSE [pa EXCEPT !.meta = NoMeta]]
       IN /\ pods = PodsOf(pl)
          /\ nodes = NodesOf(pl)
          /\ kubeEnv = [r \in Runs |-> pl[r].meta]
  /\ \E e \in [EnvNames -> EnvValues] : environ = [r \in Runs |-> IF r = "a" THEN e ELSE NoEnv]
  /\ \E f \in ResolvFiles : resolvFile = [r \in Runs |-> IF r = "a" THEN f ELSE DefaultFile]
  /\ run = [r \in Runs |-> IF r = "a" THEN InitRun ELSE OffRun]

Spec == Init /\ [][Next]_vars

\* One run of the script against every cluster: each range, each set of
\* Services, each platform, with and without failing API calls.
ClusterRanges == Blocks \cup KnownRanges
\* What kube-env may name: the blocks, a known range, an unaligned CIDR.
MetaRanges == Blocks \cup {Cidr(IP(10, 0, 0, 0), 24), Cidr(Base + 5, 30)}
InitProbe ==
  /\ svcRange \in ClusterRanges
  /\ services \in ServiceSets(svcRange)
  /\ flaky \in BOOLEAN
  /\ \E pa \in Platforms(MetaRanges) :
       LET pl == [r \in Runs |-> IF r = "a" THEN pa ELSE [pa EXCEPT !.meta = NoMeta]]
       IN /\ pods = PodsOf(pl)
          /\ nodes = NodesOf(pl)
          /\ kubeEnv = [r \in Runs |-> pl[r].meta]
  /\ environ = [r \in Runs |-> NoEnv]
  /\ resolvFile = [r \in Runs |-> DefaultFile]
  /\ run = [r \in Runs |-> IF r = "a" THEN InitRun ELSE OffRun]

SpecProbe == InitProbe /\ [][Next]_vars

\* Two runs of the script at once, in two Pods, against a cluster that
\* answers every call.
InitConc ==
  /\ svcRange \in {Cidr(IP(10, 0, 0, 0), 24), Cidr(Base, 30)}
  /\ services \in ServiceSets(svcRange)
  /\ flaky = FALSE
  /\ \E pl \in [Runs -> Platforms({svcRange})] :
       /\ pods = PodsOf(pl)
       /\ nodes = NodesOf(pl)
       /\ kubeEnv = [r \in Runs |-> pl[r].meta]
  /\ environ = [r \in Runs |-> NoEnv]
  /\ resolvFile = [r \in Runs |-> DefaultFile]
  /\ run = [r \in Runs |-> InitRun]

SpecConc == InitConc /\ [][Next]_vars

\* ---------------------------------------------------------------- claims
Active == {r \in Runs : run[r].pc # "off"}
\* The lines of an output that assign var.
LinesOf(out, var) == {i \in 1..Len(out) : out[i].var = var}

\* C1: check_service_iprange returns the network only if the probe of
\* first-1 failed, the probes of first+1 and last-1 returned an address and
\* the probe of last+1 failed; after any other results it returns False,
\* and no check ends in an uncaught exception.
C1_FourProbes ==
  \A r \in Active :
    /\ run[r].pc = "csi_ret" =>
         LET p == run[r].probes
         IN /\ IsNet(run[r].csiRes) <=>
                 ( /\ Len(p) = 4
                   /\ ~Truthy(p[1]) /\ Truthy(p[2]) /\ Truthy(p[3]) /\ ~Truthy(p[4]) )
            /\ run[r].csiRes \in {FalseNet, run[r].net}
    /\ run[r].pc = "crashed" => run[r].tried = 0
\* A check that confirmed its candidate, one probe answered "allocated".
C1_Witness ==
  \E r \in Active :
    /\ run[r].pc = "csi_ret" /\ IsNet(run[r].csiRes) /\ Len(run[r].probes) = 4
    /\ services["kubernetes"] = run[r].probes[2]

\* C2: test_service returns an address exactly when the create succeeded,
\* or failed with the already-allocated error and ignore_allocated is True.
C2_Claim ==
  \A r \in Active :
    run[r].pc = "ts_ret" =>
      ( Truthy(run[r].ret) <=>
          \/ run[r].svcIp # PyFalse
          \/ (run[r].err = ALLOCATED_ERR /\ run[r].ignore) )

\* What export_vars is to emit for var: nothing when the environment holds
\* it, else the discovered value, else nothing.
C3_Expected(env, var, discovered) ==
  IF ~IsEmpty(env[var]) \/ discovered = NoneVal THEN {} ELSE {discovered}
\* C3: at the end of export_vars each of the four variables is assigned
\* the discovered value when the environment does not hold it, and is not
\* assigned when there is no discovered value either.
C3_Claim ==
  \A r \in Active :
    run[r].pc = "done" =>
      LET out == run[r].out
          env == environ[r]
          search == IF IsEmpty(env[DNS_SEARCH_ENV]) THEN run[r].resolv["search"]
                    ELSE env[DNS_SEARCH_ENV]
      IN /\ {out[i].val : i \in LinesOf(out, DNS_ENV)}
              = C3_Expected(env, DNS_ENV, run[r].resolv["nameserver"])
         /\ {out[i].val : i \in LinesOf(out, DNS_SEARCH_ARR_ENV)}
              = C3_Expected(env, DNS_SEARCH_ARR_ENV, search)
         /\ (LinesOf(out, SVC_NETWORK_ENV) # {})
              = (IsEmpty(env[SVC_NETWORK_ENV]) /\ IsNet(run[r].cidr))
         /\ (LinesOf(out, SVC_MASK_ENV) # {})
              = (IsEmpty(env[SVC_MASK_ENV]) /\ IsNet(run[r].cidr))

\* C4: no run ends in an uncaught exception.
C4_Claim == \A r \in Active : run[r].pc # "crashed"

\* C5: a variable the environment holds (non-empty) is never assigned in
\* the output, and whether another variable is assigned depends on that
\* variable's own environment value and discovered value only.
C5_PresetNotAssigned ==
  \A r \in Active :
    LET out == run[r].out
        env == environ[r]
    IN /\ \A v \in {DNS_ENV, DNS_SEARCH_ARR_ENV, SVC_NETWORK_ENV, SVC_MASK_ENV} :
            ~IsEmpty(env[v]) => LinesOf(out, v) = {}
       /\ run[r].pc = "done" =>
            /\ (LinesOf(out, DNS_ENV) # {})
                 = (IsEmpty(env[DNS_ENV]) /\ run[r].resolv["nameserver"] # NoneVal)
            /\ (LinesOf(out, DNS_SEARCH_ARR_ENV) # {}) = IsEmpty(env[DNS_SEARCH_ARR_ENV])
            /\ (LinesOf(out, SVC_NETWORK_ENV) # {})
                 = (IsEmpty(env[SVC_NETWORK_ENV]) /\ IsNet(run[r].cidr))
            /\ (LinesOf(out, SVC_MASK_ENV) # {})
                 = (IsEmpty(env[SVC_MASK_ENV]) /\ IsNet(run[r].cidr))
\* KUBE_DNS and KUBE_SVC_NET pre-set, a nameserver in resolv.conf and a
\* confirmed range: the other two variables are assigned.
C5_Witness ==
  \E r \in Active :
    /\ run[r].pc = "done"
    /\ environ[r][DNS_ENV] = "preset" /\ run[r].resolv["nameserver"] # NoneVal
    /\ environ[r][SVC_NETWORK_ENV] = "preset" /\ IsNet(run[r].cidr)
    /\ LinesOf(run[r].out, SVC_MASK_ENV) # {}
    /\ LinesOf(run[r].out, DNS_SEARCH_ARR_ENV) # {}

\* The probe Service is gone.
NoProbeService == services[ProbeName] = Absent
C7_AwsOrder ==
  \A r \in Active :
    run[r].provider = "aws" =>
      LET h == run[r].hist
          kube_aws == Cidr(IP(10, 3, 0, 0), 24)
          kube_up == Cidr(IP(10, 0, 0, 0), 16)
      IN /\ Len(h) <= 2
         /\ Len(h) >= 1 => h[1].cidr = kube_aws
         /\ Len(h) = 2 => (h[2].cidr = kube_up /\ ~IsNet(h[1].res))
         /\ run[r].pc \in {"ts_exists", "ts_predelete", "ts_create", "ts_postdelete", "ts_ret"}
              => run[r].net = (IF Len(h) = 0 THEN kube_aws ELSE kube_up)
         /\ run[r].pc \in {"ev_cidr", "done"} =>
              /\ Len(h) >= 1
              /\ IsNet(h[1].res) => (Len(h) = 1 /\ run[r].cidr = kube_aws)
              /\ ~IsNet(h[1].res) => (Len(h) = 2 /\ run[r].cidr = h[2].res)
              /\ run[r].cidr \in {FalseNet, kube_aws, kube_up}
\* 10.3.0.0/24 was not confirmed and 10.0.0.0/16 then was.
C7_Witness ==
  \E r \in Active :
    /\ run[r].provider = "aws" /\ run[r].pc = "done"
    /\ Len(run[r].hist) = 2 /\ run[r].cidr = Cidr(IP(10, 0, 0, 0), 16)

\* One run only.
Sequential == Cardinality(Active) = 1
\* C8: when two runs probe at once and the cluster answers every call, a
\* probe of an address inside the service range returns False only after
\* the name of the probe Service was taken (create: already exists) or the
\* Service was deleted by the other run (delete: not found); a check of
\* the cluster's own range that is not confirmed ended on such an error.
C8_OnlyInterference ==
  \A r \in Active :
    /\ ( /\ run[r].pc = "ts_ret" /\ run[r].ret = PyFalse
         /\ run[r].target # EmptyIP /\ Interior(run[r].target, svcRange) )
         => run[r].err \in {EXISTS_ERR, NOT_FOUND_ERR}
    /\ ( /\ run[r].pc = "csi_ret" /\ ~IsNet(run[r].csiRes)
         /\ First(run[r].net) = First(svcRange) /\ run[r].net.plen = svcRange.plen )
         => run[r].err \in {EXISTS_ERR, NOT_FOUND_ERR}
\* With two runs, a check of the cluster's own range is not confirmed.
C8_Witness ==
  \E r \in Active :
    /\ ~Sequential /\ ~flaky
    /\ run[r].pc = "csi_ret" /\ ~IsNet(run[r].csiRes)
    /\ Aligned(run[r].net) /\ run[r].net = svcRange
    /\ Interior(run[r].target, svcRange)
    /\ run[r].target \notin {services[n] : n \in OtherNames}

\* C9: against a cluster that answers every call by the rule of its range
\* (prefix length at most 30), one sequential check of an aligned
\* candidate of prefix length at most 30 confirms it exactly when it is
\* the cluster's range.
C9_SoundComplete ==
  \A r \in Active :
    ( /\ ~flaky /\ Sequential /\ run[r].pc = "csi_ret"
      /\ Aligned(run[r].net) /\ run[r].net.plen <= 30 /\ svcRange.plen <= 30 )
      => (IsNet(run[r].csiRes) <=> run[r].net = svcRange)
\* The cluster's range is checked and confirmed, first+1 being allocated.
C9_Witness ==
  \E r \in Active :
    /\ ~flaky /\ Sequential /\ run[r].pc = "csi_ret"
    /\ Aligned(run[r].net) /\ run[r].net = svcRange /\ IsNet(run[r].csiRes)
    /\ services["kubernetes"] = First(svcRange) + 1

\* C10: no step changes a Service other than the probe Service, a Pod or
\* a Node.
C10_Frame ==
  [][ /\ \A n \in OtherNames : services'[n] = services[n]
      /\ pods' = pods
      /\ nodes' = nodes
      /\ svcRange' = svcRange ]_vars
\* The probe Service was created beside the cluster's own Services.
C10_Witness ==
  \E r \in Active :
    /\ run[r].pc = "ts_postdelete" /\ services[ProbeName] # Absent
    /\ \A n \in OtherNames : services[n] # Absent

====
